---- MODULE Spec2Model ----
(***************************************************************************)
(* Model of the DeepRacer reward functions of carthing.py (the additive    *)
(* variant) and carthing2.py (the weighted variant).                       *)
(*                                                                         *)
(* Python floats are modelled in fixed point, each quantity in its own     *)
(* unit, so that every intermediate value fits a 32-bit integer:           *)
(*   lengths and coordinates   millimetres        (1 m      = Milli)       *)
(*   speeds                    millimetres/second (1 m/s    = Milli)       *)
(*   angles in degrees         millidegrees       (1 degree = Milli)       *)
(*   angles in radians         milliradians       (1 rad    = Milli)       *)
(*   sight, slope m            thousandths        (1.0      = Milli)       *)
(*   progress                  1/10000 percent    (1 %      = Percent)     *)
(*   rewards and scores        millionths         (1.0      = Micro)       *)
(* A float operation that rounds is modelled by an integer operation that  *)
(* rounds (RoundDiv, FloorDiv, Sqrt).  Waypoint coordinates are the        *)
(* source's, rounded to the millimetre.  Indices are 0-based as in the     *)
(* source: element i of a Python list is element i + 1 of the sequence.    *)
(***************************************************************************)
EXTENDS Integers, Sequences, FiniteSets, TLC

Milli == 10^3
Micro == 10^6
Percent == 10^4

(* float("inf"): larger than every distance of the model *)
Inf == 2^30

(* ---------------- module constants ---------------- *)
carthing_reward_max == 5 * Micro
carthing_reward_min == Micro \div 1000
carthing2_reward_max == 10 * Micro
carthing2_reward_min == Micro \div 1000

(* math.pi, in milliradians *)
PI == 3142

(* ---------------- Python arithmetic in fixed point ---------------- *)
Abs(a) == IF a < 0 THEN -a ELSE a
Max(a, b) == IF a >= b THEN a ELSE b
Min(a, b) == IF a <= b THEN a ELSE b

(* a / b rounded to the nearest integer (b > 0) *)
RoundDiv(a, b) == (2 * a + b) \div (2 * b)

(* the float a / b in millionths, rounded down (a >= 0, b > 0, same unit), *)
(* by long division so that no intermediate value overflows *)
FloorDiv(a, b) ==
    LET r0 == a % b
        r1 == (r0 * Milli) % b
    IN  (a \div b) * Micro + ((r0 * Milli) \div b) * Milli + (r1 * Milli) \div b

(* a * b for two millionths-valued factors in 0 .. Micro *)
MulMicro(a, b) == ((a \div Milli) * b + ((a % Milli) * b) \div Milli) \div Milli

(* math.sqrt: Newton's iteration from above, rounded down *)
RECURSIVE SqrtIter(_, _)
SqrtIter(n, x) ==
    LET y == (x + n \div x) \div 2
    IN  IF y >= x THEN x ELSE SqrtIter(n, y)

Sqrt(n) == IF n = 0 THEN 0 ELSE SqrtIter(n, 2^15)

(* math.atan on [0, 1]: z in thousandths, result in milliradians *)
(* (pi/4) z + z (1 - z) (0.2447 + 0.0663 z), within 4 milliradians *)
AtanUnit(z) ==
    (PI * z) \div (4 * Milli)
    + (z * (Milli - z) * (2447 + (663 * z) \div Milli)) \div (10 * Micro)

(* math.atan2(y, x), in milliradians; atan2(0, 0) is 0 *)
Atan2(y, x) ==
    LET ax == Abs(x)
        ay == Abs(y)
        first == IF ay <= ax
                   THEN AtanUnit((ay * Milli) \div ax)
                   ELSE PI \div 2 - AtanUnit((ax * Milli) \div ay)
        upper == IF x >= 0 THEN first ELSE PI - first
    IN  IF x = 0 /\ y = 0 THEN 0
        ELSE IF y < 0 THEN -upper ELSE upper

(* math.radians: millidegrees to milliradians *)
Radians(d) == RoundDiv(d * PI, 180 * Milli)

(* math.degrees: milliradians to millidegrees *)
Degrees(r) == RoundDiv(r * 180 * Milli, PI)

(* ---------------- waypoint tables ---------------- *)
(* carthing.py: [x, y, target speed] *)
carthing_get_racing_track == <<
    <<1179, -28, 4000>>, <<974, 193, 4000>>, <<770, 415, 4000>>, <<567, 637, 4000>>,
    <<364, 860, 3500>>, <<161, 1083, 3500>>, <<-42, 1306, 3500>>, <<-245, 1529, 3000>>,
    <<-448, 1752, 3000>>, <<-650, 1976, 3000>>, <<-852, 2200, 2500>>, <<-1053, 2425, 2500>>,
    <<-1254, 2650, 2223>>, <<-1456, 2874, 1987>>, <<-1662, 3090, 1804>>, <<-1873, 3295, 1567>>,
    <<-2093, 3482, 1391>>, <<-2320, 3645, 1234>>, <<-2554, 3781, 1098>>, <<-2794, 3882, 1098>>,
    <<-3036, 3947, 1098>>, <<-3276, 3965, 1098>>, <<-3508, 3931, 1098>>, <<-3719, 3836, 1098>>,
    <<-3887, 3671, 1220>>, <<-4003, 3461, 1357>>, <<-4066, 3230, 1472>>, <<-4082, 2997, 1614>>,
    <<-4061, 2769, 1747>>, <<-4011, 2551, 1891>>, <<-3938, 2343, 1560>>, <<-3845, 2145, 1263>>,
    <<-3737, 1957, 1263>>, <<-3616, 1777, 1263>>, <<-3466, 1590, 1263>>, <<-3335, 1394, 1263>>,
    <<-3242, 1182, 1263>>, <<-3207, 949, 1459>>, <<-3221, 704, 1732>>, <<-3276, 449, 2104>>,
    <<-3362, 188, 2500>>, <<-3470, -77, 2500>>, <<-3593, -352, 2500>>, <<-3708, -630, 2454>>,
    <<-3813, -913, 2263>>, <<-3905, -1199, 2106>>, <<-3981, -1488, 1954>>, <<-4037, -1779, 1806>>,
    <<-4070, -2069, 1613>>, <<-4078, -2354, 1426>>, <<-4058, -2632, 1276>>, <<-4008, -2898, 1128>>,
    <<-3928, -3147, 1000>>, <<-3818, -3373, 1000>>, <<-3676, -3570, 1000>>, <<-3503, -3726, 1000>>,
    <<-3302, -3829, 1000>>, <<-3085, -3864, 1000>>, <<-2869, -3810, 1189>>, <<-2672, -3693, 1318>>,
    <<-2501, -3523, 1474>>, <<-2362, -3312, 1655>>, <<-2256, -3068, 1769>>, <<-2182, -2799, 1612>>,
    <<-2140, -2514, 1481>>, <<-2127, -2221, 1301>>, <<-2080, -1940, 1174>>, <<-1999, -1678, 1041>>,
    <<-1883, -1442, 1041>>, <<-1733, -1241, 1041>>, <<-1555, -1080, 1041>>, <<-1351, -974, 1041>>,
    <<-1131, -934, 1041>>, <<-916, -976, 1162>>, <<-720, -1080, 1275>>, <<-552, -1234, 1389>>,
    <<-415, -1428, 1523>>, <<-314, -1654, 1693>>, <<-247, -1904, 1562>>, <<-211, -2172, 1259>>,
    <<-201, -2452, 1054>>, <<-211, -2738, 1054>>, <<-232, -3004, 1054>>, <<-228, -3257, 1054>>,
    <<-182, -3487, 1054>>, <<-87, -3682, 1054>>, <<63, -3826, 1072>>, <<254, -3915, 1190>>,
    <<471, -3950, 1308>>, <<705, -3930, 1445>>, <<947, -3857, 1509>>, <<1184, -3727, 1579>>,
    <<1435, -3647, 1545>>, <<1692, -3613, 1476>>, <<1949, -3623, 1370>>, <<2204, -3676, 1280>>,
    <<2453, -3774, 1202>>, <<2690, -3923, 1026>>, <<2944, -4017, 1026>>, <<3193, -4052, 1026>>,
    <<3426, -4029, 1026>>, <<3635, -3953, 1026>>, <<3810, -3826, 1026>>, <<3928, -3640, 1134>>,
    <<3984, -3418, 1277>>, <<3981, -3177, 1416>>, <<3923, -2933, 1576>>, <<3817, -2697, 1766>>,
    <<3674, -2475, 2008>>, <<3501, -2268, 2378>>, <<3309, -2073, 3000>>, <<3102, -1888, 3000>>,
    <<2884, -1711, 3500>>, <<2659, -1516, 3500>>, <<2439, -1314, 4000>>, <<2223, -1107, 4000>>,
    <<2010, -896, 4000>>, <<1800, -683, 4000>>, <<1591, -466, 4000>>, <<1384, -248, 4000>>
>>

(* carthing2.py: [x, y]; the last waypoint repeats the first *)
carthing2_get_racing_track == <<
    <<1179, -28>>, <<974, 193>>, <<770, 415>>, <<567, 637>>, <<364, 860>>,
    <<161, 1083>>, <<-42, 1306>>, <<-245, 1529>>, <<-448, 1752>>, <<-650, 1976>>,
    <<-852, 2200>>, <<-1053, 2425>>, <<-1254, 2650>>, <<-1456, 2874>>, <<-1662, 3090>>,
    <<-1873, 3295>>, <<-2093, 3482>>, <<-2320, 3645>>, <<-2554, 3781>>, <<-2794, 3882>>,
    <<-3036, 3947>>, <<-3276, 3965>>, <<-3508, 3931>>, <<-3719, 3836>>, <<-3887, 3671>>,
    <<-4003, 3461>>, <<-4066, 3230>>, <<-4082, 2997>>, <<-4061, 2769>>, <<-4011, 2551>>,
    <<-3938, 2343>>, <<-3845, 2145>>, <<-3737, 1957>>, <<-3616, 1777>>, <<-3466, 1590>>,
    <<-3335, 1394>>, <<-3242, 1182>>, <<-3207, 949>>, <<-3221, 704>>, <<-3276, 449>>,
    <<-3362, 188>>, <<-3470, -77>>, <<-3593, -352>>, <<-3708, -630>>, <<-3813, -913>>,
    <<-3905, -1199>>, <<-3981, -1488>>, <<-4037, -1779>>, <<-4070, -2069>>, <<-4078, -2354>>,
    <<-4058, -2632>>, <<-4008, -2898>>, <<-3928, -3147>>, <<-3818, -3373>>, <<-3676, -3570>>,
    <<-3503, -3726>>, <<-3302, -3829>>, <<-3085, -3864>>, <<-2869, -3810>>, <<-2672, -3693>>,
    <<-2501, -3523>>, <<-2362, -3312>>, <<-2256, -3068>>, <<-2182, -2799>>, <<-2140, -2514>>,
    <<-2127, -2221>>, <<-2080, -1940>>, <<-1999, -1678>>, <<-1883, -1442>>, <<-1733, -1241>>,
    <<-1555, -1080>>, <<-1351, -974>>, <<-1131, -934>>, <<-916, -976>>, <<-720, -1080>>,
    <<-552, -1234>>, <<-415, -1428>>, <<-314, -1654>>, <<-247, -1904>>, <<-211, -2172>>,
    <<-201, -2452>>, <<-211, -2738>>, <<-232, -3004>>, <<-228, -3257>>, <<-182, -3487>>,
    <<-87, -3682>>, <<63, -3826>>, <<254, -3915>>, <<471, -3950>>, <<705, -3930>>,
    <<947, -3857>>, <<1184, -3727>>, <<1435, -3647>>, <<1692, -3613>>, <<1949, -3623>>,
    <<2204, -3676>>, <<2453, -3774>>, <<2690, -3923>>, <<2944, -4017>>, <<3193, -4052>>,
    <<3426, -4029>>, <<3635, -3953>>, <<3810, -3826>>, <<3928, -3640>>, <<3984, -3418>>,
    <<3981, -3177>>, <<3923, -2933>>, <<3817, -2697>>, <<3674, -2475>>, <<3501, -2268>>,
    <<3309, -2073>>, <<3102, -1888>>, <<2884, -1711>>, <<2659, -1516>>, <<2439, -1314>>,
    <<2223, -1107>>, <<2010, -896>>, <<1800, -683>>, <<1591, -466>>, <<1384, -248>>,
    <<1179, -28>>
>>

(* ---------------- helpers shared by both files ---------------- *)
get_distance(coor1, coor2) ==
    Sqrt((coor1[1] - coor2[1]) * (coor1[1] - coor2[1])
         + (coor1[2] - coor2[2]) * (coor1[2] - coor2[2]))

(* a normalisation that leaves half a turn at +pi *)
get_difference_degrees_strict(angle1, angle2) ==
    LET diff == (angle1 - angle2) % (2 * PI)
    IN  Degrees(IF diff > PI THEN diff - 2 * PI ELSE diff)

get_difference_degrees(angle1, angle2) ==
    LET diff == (angle1 - angle2) % (2 * PI)
    IN  Degrees(IF diff >= PI THEN diff - 2 * PI ELSE diff)

(* a scan that also takes a waypoint as far as the minimum found so far *)
IsNewMinOrEqual(dist, min_dist) == dist <= min_dist

(* the test of the for loop of get_distance_list: dist < min_dist *)
IsNewMin(dist, min_dist) == dist < min_dist

(* one iteration of the for loop of get_distance_list, for waypoint i, from *)
(* the minimum s found so far; dist_list[i + 1] is the distance appended *)
get_distance_list_step(dist_list, s, i) ==
    IF IsNewMin(dist_list[i + 1], s.min_dist)
      THEN [min_dist |-> dist_list[i + 1], min_idx |-> i]
      ELSE s

(* the for loop of get_distance_list: loop[<<s, lo, hi>>] is the minimum after *)
(* the iterations lo .. hi - 1, in order, starting from the minimum s; the *)
(* range is split in two halves, the first evaluated before the second *)
get_distance_list(car, waypoints) ==
    LET dist_list == [i \in 1..Len(waypoints) |-> get_distance(car, waypoints[i])]
        loop[a \in [min_dist : Int, min_idx : Int] \X Nat \X Nat] ==
            LET s == a[1]
                lo == a[2]
                hi == a[3]
                mid == (lo + hi) \div 2
            IN  IF hi <= lo THEN s
                ELSE IF hi = lo + 1 THEN get_distance_list_step(dist_list, s, lo)
                ELSE loop[<<loop[<<s, lo, mid>>], mid, hi>>]
        r == loop[<<[min_dist |-> Inf, min_idx |-> -1], 0, Len(waypoints)>>]
    IN  [dist_list |-> dist_list, min_dist |-> r.min_dist,
         min_idx |-> r.min_idx, length |-> Len(waypoints)]

(* a scan that tests the distance before it records the index, so that it *)
(* returns the index before the one that reached the target distance *)
RECURSIVE draw_ray_loop_break_first(_, _, _, _, _, _, _)
draw_ray_loop_break_first(dist_list, min_idx, length, target_dist, i, stop, target_idx) ==
    IF i >= stop THEN target_idx
    ELSE LET index == (min_idx + i) % length
         IN  IF dist_list[index + 1] >= target_dist THEN target_idx
             ELSE draw_ray_loop_break_first(dist_list, min_idx, length, target_dist,
                                            i + 1, stop, index)

(* the for loop of draw_ray: i runs over range(5, stop) *)
RECURSIVE draw_ray_loop(_, _, _, _, _, _, _)
draw_ray_loop(dist_list, min_idx, length, target_dist, i, stop, target_idx) ==
    IF i >= stop THEN target_idx
    ELSE LET index == (min_idx + i) % length
         IN  IF dist_list[index + 1] >= target_dist THEN index
             ELSE draw_ray_loop(dist_list, min_idx, length, target_dist,
                                i + 1, stop, index)

(* sight in thousandths; int(length * 0.1) is length \div 10 *)
draw_ray(params, waypoints, sight) ==
    LET car == <<params.x, params.y>>
        target_dist == (params.track_width * sight) \div Milli
        d == get_distance_list(car, waypoints)
    IN  [target_idx |-> draw_ray_loop(d.dist_list, d.min_idx, d.length,
                                      target_dist, 5, d.length \div 10, d.min_idx),
         min_idx |-> d.min_idx]

(* m * params["x"] + line_y[0] - m * line_x[0] for the line (7, -7) .. (-6, 6) *)
line_y_at_car_x(params) ==
    LET line_x == <<7 * Milli, -6 * Milli>>
        line_y == <<-7 * Milli, 6 * Milli>>
        m == -RoundDiv((line_y[2] - line_y[1]) * Milli, -(line_x[2] - line_x[1]))
    IN  RoundDiv(m * params.x, Milli) + line_y[1] - RoundDiv(m * line_x[1], Milli)

(* the target steering of score_steering, clamped to [-30, 30] degrees *)
target_steering(params, target) ==
    LET car == <<params.x, params.y>>
        target_angle == Atan2(target[2] - car[2], target[1] - car[1])
        heading == params.heading
    IN  Max(-30 * Milli,
            Min(30 * Milli, get_difference_degrees(target_angle, Radians(heading))))

(* ---------------- carthing.py: the additive variant ---------------- *)
(* a steering score that forgets the abs() of the difference *)
carthing_score_steering_signed(params, target) ==
    LET steering == params.steering_angle
        diff == steering - target_steering(params, target)
        score == IF diff > 30 * Milli
                   THEN Micro \div 1000
                   ELSE 1001 * Milli - RoundDiv(diff * Milli, 30)
    IN  Max(Min(score, carthing_reward_max), carthing_reward_min)

carthing_score_steering(params, target) ==
    LET steering == params.steering_angle
        diff == Abs(steering - target_steering(params, target))
        score == IF diff > 30 * Milli
                   THEN Micro \div 1000
                   ELSE 1001 * Milli - RoundDiv(diff * Milli, 30)
    IN  Max(Min(score, carthing_reward_max), carthing_reward_min)

carthing_score_speed(params, target) ==
    LET speed == params.speed
        diff == Abs(speed - target[3])
        score == 1001 * Milli - RoundDiv(diff * Milli, 3)
    IN  Max(Min(score, carthing_reward_max), carthing_reward_min)

carthing_score_speed_steering(params) ==
    LET speed == params.speed
        steering_angle == Abs(params.steering_angle)
        max_speed == 4 * Milli
        max_steering == 30 * Milli
        normalized_speed == FloorDiv(speed, max_speed)
        normalized_steering == FloorDiv(steering_angle, max_steering)
        reward == IF speed >= 2500
                    THEN Micro - MulMicro(normalized_steering, normalized_speed)
                    ELSE IF speed <= 1500
                    THEN Micro + MulMicro(normalized_steering, Micro - normalized_speed)
                    ELSE Micro - normalized_steering \div 2
    IN  Max(carthing_reward_min, Min(reward, carthing_reward_max))

(* the division by track_width raises ZeroDivisionError when track_width is 0 *)
carthing_score_center(params, target) ==
    LET track_width == params.track_width
        car == <<params.x, params.y>>
        center == <<target[1], target[2]>>
        dist == get_distance(car, center)
        score == 1001 * Milli - FloorDiv(Abs(track_width - dist), track_width)
    IN  IF track_width = 0
          THEN [exception |-> "ZeroDivisionError", score |-> 0]
          ELSE [exception |-> "none",
                score |-> Max(Min(score, carthing_reward_max), carthing_reward_min)]

(* a progress score with the difference taken the wrong way round *)
carthing_score_progress_reversed(params, last) ==
    LET progress == params.progress
        score == (last - progress) * (carthing_reward_max \div Percent)
    IN  [score |-> Max(score, carthing_reward_min), last_progress |-> progress]

(* score_progress reads the global last_progress (last) and assigns it *)
carthing_score_progress(params, last) ==
    LET progress == params.progress
        score == (progress - last) * (carthing_reward_max \div Percent)
    IN  [score |-> Max(score, carthing_reward_min), last_progress |-> progress]

(* reward_function of carthing.py called with the global last_progress = last: *)
(* what it returns or raises, and the value it leaves in last_progress *)
carthing_reward_function(params, last) ==
    LET sight == IF params.y < line_y_at_car_x(params) THEN 250 ELSE 500
        racing_track == carthing_get_racing_track
        ray == draw_ray(params, racing_track, sight)
        steering == carthing_score_steering(params, racing_track[ray.target_idx + 1])
        speed == carthing_score_speed(params, racing_track[ray.min_idx + 1])
        center == carthing_score_center(params, racing_track[ray.min_idx + 1])
        progress == carthing_score_progress(params, last)
        speed_steering == carthing_score_speed_steering(params)
    IN  IF center.exception # "none"
          THEN [exception |-> center.exception, reward |-> 0,
                target_idx |-> ray.target_idx, min_idx |-> ray.min_idx,
                steering |-> steering, speed |-> speed, center |-> 0,
                progress |-> 0, speed_steering |-> 0, last_progress |-> last]
          ELSE [exception |-> "none",
                reward |-> steering + speed + center.score + progress.score
                           + speed_steering,
                target_idx |-> ray.target_idx, min_idx |-> ray.min_idx,
                steering |-> steering, speed |-> speed, center |-> center.score,
                progress |-> progress.score, speed_steering |-> speed_steering,
                last_progress |-> progress.last_progress]

(* ---------------- carthing2.py: the weighted variant ---------------- *)
(* weight * score for a weight in thousandths *)
Weighted(weight, score) ==
    weight * (score \div Milli) + (weight * (score % Milli)) \div Milli

carthing2_score_steering(params, target_wp) ==
    LET steering_deg == params.steering_angle
        diff == Abs(steering_deg - target_steering(params, target_wp))
        score == (1100 * Milli - RoundDiv(diff * Milli, 30))
                 * (carthing2_reward_max \div Micro)
    IN  Max(Min(score, carthing2_reward_max), carthing2_reward_min)

carthing2_score_speed(params) ==
    LET speed == params.speed
        score == (100 * Milli + RoundDiv((speed - 1 * Milli) * Milli, 3))
                 * (carthing2_reward_max \div Micro)
    IN  Max(Min(score, carthing2_reward_max), carthing2_reward_min)

carthing2_score_center(params, closest_wp) ==
    LET car == <<params.x, params.y>>
        line_point == <<closest_wp[1], closest_wp[2]>>
        dist_to_line == get_distance(car, line_point)
        score == carthing2_reward_max - dist_to_line * Milli
    IN  Max(Min(score, carthing2_reward_max), carthing2_reward_min)

carthing2_score_progress(params) ==
    LET progress_percent == params.progress
        score == (progress_percent * (carthing2_reward_max \div Percent)) \div 100
    IN  Max(Min(score, carthing2_reward_max), carthing2_reward_min)

(* steps 2 to 8 of reward_function of carthing2.py *)
carthing2_weighted_reward(params) ==
    LET sight == IF params.y < line_y_at_car_x(params) THEN 500 ELSE 1000
        racing_track == carthing2_get_racing_track
        ray == draw_ray(params, racing_track, sight)
        steering_score == carthing2_score_steering(params, racing_track[ray.target_idx + 1])
        speed_score == carthing2_score_speed(params)
        center_score == carthing2_score_center(params, racing_track[ray.min_idx + 1])
        progress_score == carthing2_score_progress(params)
        reward == Weighted(100, steering_score) + Weighted(500, speed_score)
                  + Weighted(300, center_score) + Weighted(100, progress_score)
    IN  [exception |-> "none",
         reward |-> Max(Min(reward, carthing2_reward_max), carthing2_reward_min),
         target_idx |-> ray.target_idx, min_idx |-> ray.min_idx,
         steering |-> steering_score, speed |-> speed_score,
         center |-> center_score, progress |-> progress_score]

(* a reward function without step 1, the off-track check *)
carthing2_reward_function_no_offtrack(params) == carthing2_weighted_reward(params)

(* reward_function of carthing2.py: off track, nothing is computed *)
(* (target_idx and min_idx are -1, the sub-scores 0) *)
carthing2_reward_function(params) ==
    IF params.is_offtrack
      THEN [exception |-> "none", reward |-> Micro \div 1000,
            target_idx |-> -1, min_idx |-> -1,
            steering |-> 0, speed |-> 0, center |-> 0, progress |-> 0]
      ELSE carthing2_weighted_reward(params)

(* ---------------- state ---------------- *)
VARIABLES
    last_progress,      (* the module global last_progress of carthing.py *)
    pc,                 (* the operation that ran last ("start", "input": none yet) *)
    params,             (* the arguments of that operation *)
    result,             (* what it returned or raised *)
    before,             (* last_progress and the caller's own record, before it *)
    episode,            (* the episode whose step made the call (the caller's) *)
    episode_progress    (* per episode, the progress of its latest carthing call *)

vars == <<last_progress, pc, params, result, before, episode, episode_progress>>

(* ---------------- inputs ---------------- *)
NumEpisodes == 2
Episodes == 1..NumEpisodes

(* the car on waypoint 0 (above the sight line) and a car off the racing *)
(* line near waypoint 50 (below the sight line) *)
Cars == {<<1179, -28>>, <<-3900, -2700>>}

(* progress: 0, 1 % and 100 % *)
Progresses == {0, 1 * Percent, 100 * Percent}

(* track_width: 0 (degenerate) and 0.8 m *)
TrackWidths == {0, 800}

(* every combination of position, track width, progress and off-track flag, *)
(* driving straight at full speed *)
TelemetryTrack ==
    {[x |-> c[1], y |-> c[2], heading |-> 0, steering_angle |-> 0, speed |-> 4 * Milli,
      track_width |-> w, progress |-> g, is_offtrack |-> o] :
        c \in Cars, w \in TrackWidths, g \in Progresses, o \in BOOLEAN}

(* every combination of steering and speed (one speed per branch of *)
(* score_speed_steering), on waypoint 0 heading 135 degrees *)
TelemetryDrive ==
    {[x |-> 1179, y |-> -28, heading |-> h, steering_angle |-> a, speed |-> v,
      track_width |-> 800, progress |-> 1 * Percent, is_offtrack |-> FALSE] :
        h \in {135 * Milli}, a \in {-30 * Milli, 0, 15 * Milli},
        v \in {1 * Milli, 2 * Milli, 4 * Milli}}

Telemetry == TelemetryTrack \cup TelemetryDrive

(* ---------------- operations ---------------- *)
(* one call of reward_function of carthing.py, made for a step of episode e *)
carthing_call(p, e) ==
    /\ pc' = "carthing"
    /\ params' = p
    /\ result' = carthing_reward_function(p, last_progress)
    /\ last_progress' = result'.last_progress
    /\ before' = [last_progress |-> last_progress,
                  episode_progress |-> episode_progress[e]]
    /\ episode' = e
    /\ episode_progress' = [episode_progress EXCEPT ![e] = p.progress]

(* one call of reward_function of carthing2.py, which keeps no state *)
carthing2_call(p) ==
    /\ pc' = "carthing2"
    /\ params' = p
    /\ result' = carthing2_reward_function(p)
    /\ before' = [last_progress |-> last_progress,
                  episode_progress |-> episode_progress[episode]]
    /\ UNCHANGED <<last_progress, episode, episode_progress>>

Init ==
    /\ last_progress = 0
    /\ pc = "start"
    /\ params = <<>>
    /\ result = <<>>
    /\ before = <<>>
    /\ episode = 1
    /\ episode_progress = [e \in Episodes |-> 0]

(* one training run: every step calls one of the two reward functions *)
Next ==
    \/ \E p \in Telemetry : carthing_call(p, 1)
    \/ \E p \in Telemetry : carthing2_call(p)

Spec == Init /\ [][Next]_vars

(* ---------------- interleaved episodes ---------------- *)
(* progress: 0, 0.0002 % and 0.0003 % (around the reward_min floor), 1 % *)
EpisodeProgresses == {0, 2, 3, 1 * Percent}

EpisodeTelemetry ==
    {[x |-> 1179, y |-> -28, heading |-> 0, steering_angle |-> 0, speed |-> 4 * Milli,
      track_width |-> 800, progress |-> g, is_offtrack |-> FALSE] :
        g \in EpisodeProgresses}

(* several simulated episodes step one evaluator (one module) in any order *)
NextEpisodes == \E p \in EpisodeTelemetry, e \in Episodes : carthing_call(p, e)

SpecEpisodes == Init /\ [][NextEpisodes]_vars

(* ---------------- get_distance_list alone ---------------- *)
GridMax == 6
GridStep == 750

(* a grid over the track's bounding box, and the car on each waypoint *)
NearestCars ==
    {<<i * GridStep, j * GridStep>> : i \in -GridMax..GridMax, j \in -GridMax..GridMax}
    \cup {<<carthing_get_racing_track[i][1], carthing_get_racing_track[i][2]>> :
            i \in 1..Len(carthing_get_racing_track)}

Track(name) ==
    IF name = "carthing" THEN carthing_get_racing_track ELSE carthing2_get_racing_track

InitNearest ==
    /\ pc = "input"
    /\ params \in {[car |-> c, track |-> t] :
                     c \in NearestCars, t \in {"carthing", "carthing2"}}
    /\ result = <<>>
    /\ before = <<>>
    /\ last_progress = 0
    /\ episode = 1
    /\ episode_progress = [e \in Episodes |-> 0]

get_distance_list_call ==
    /\ pc = "input"
    /\ pc' = "get_distance_list"
    /\ result' = get_distance_list(params.car, Track(params.track))
    /\ UNCHANGED <<params, before, last_progress, episode, episode_progress>>

SpecNearest == InitNearest /\ [][get_distance_list_call]_vars

(* ---------------- get_difference_degrees alone ---------------- *)
MaxQuarterTurns == 4

(* the quarter turns, each one milliradian less, exact and one milliradian more *)
Angles ==
    {q * (PI \div 2) + r : q \in -MaxQuarterTurns..MaxQuarterTurns, r \in {-1, 0, 1}}

InitAngles ==
    /\ pc = "input"
    /\ params \in {[angle1 |-> a1, angle2 |-> a2] : a1 \in Angles, a2 \in Angles}
    /\ result = <<>>
    /\ before = <<>>
    /\ last_progress = 0
    /\ episode = 1
    /\ episode_progress = [e \in Episodes |-> 0]

get_difference_degrees_call ==
    /\ pc = "input"
    /\ pc' = "get_difference_degrees"
    /\ result' = get_difference_degrees(params.angle1, params.angle2)
    /\ UNCHANGED <<params, before, last_progress, episode, episode_progress>>

SpecAngles == InitAngles /\ [][get_difference_degrees_call]_vars

(* ---------------- score_steering alone ---------------- *)
(* the steering angles of the action space: whole degrees in [-30, 30] *)
MaxSteering == 30
SteeringAngles == {k * Milli : k \in -MaxSteering..MaxSteering}

(* car, heading and target waypoint: the target dead ahead (target steering *)
(* 0), far to either side (clamped to 30 and -30 degrees), and in between *)
(* (12.489, -0.401 and -24.004 degrees) *)
SteeringViews ==
    {[x |-> 679, y |-> -28, heading |-> 0, target |-> 0],
     [x |-> 679, y |-> -28, heading |-> -90 * Milli, target |-> 0],
     [x |-> 679, y |-> -28, heading |-> 100 * Milli, target |-> 0],
     [x |-> 1179, y |-> -28, heading |-> 120 * Milli, target |-> 5],
     [x |-> 1000, y |-> 0, heading |-> 130 * Milli, target |-> 8],
     [x |-> -3900, y |-> -2700, heading |-> -45 * Milli, target |-> 55]}

(* a telemetry record of a view with the given steering angle *)
SteeringTelemetry(view, angle) ==
    [x |-> view.x, y |-> view.y, heading |-> view.heading, steering_angle |-> angle,
     speed |-> 4 * Milli, track_width |-> 800, progress |-> 0, is_offtrack |-> FALSE]

InitSteering ==
    /\ pc = "input"
    /\ params \in {[view |-> v, steering_angle |-> a, other_angle |-> b] :
                     v \in SteeringViews, a \in SteeringAngles, b \in SteeringAngles}
    /\ result = <<>>
    /\ before = <<>>
    /\ last_progress = 0
    /\ episode = 1
    /\ episode_progress = [e \in Episodes |-> 0]

(* score_steering of both files, for the same view with each of the two angles *)
score_steering_call ==
    /\ pc = "input"
    /\ pc' = "score_steering"
    /\ LET target == carthing2_get_racing_track[params.view.target + 1]
           target3 == carthing_get_racing_track[params.view.target + 1]
           p == SteeringTelemetry(params.view, params.steering_angle)
           q == SteeringTelemetry(params.view, params.other_angle)
       IN  result' = [target_steering |-> target_steering(p, target),
                      carthing |-> carthing_score_steering(p, target3),
                      carthing_other |-> carthing_score_steering(q, target3),
                      carthing2 |-> carthing2_score_steering(p, target),
                      carthing2_other |-> carthing2_score_steering(q, target)]
    /\ UNCHANGED <<params, before, last_progress, episode, episode_progress>>

SpecSteering == InitSteering /\ [][score_steering_call]_vars

(* ---------------- draw_ray alone ---------------- *)
(* the table draw_ray is given: the first length waypoints of the table of *)
(* carthing2.py, for every length from 1 up to the whole table; its first 120 *)
(* waypoints are the positions of the table of carthing.py *)
RayLengths == 1..Len(carthing2_get_racing_track)

RayTrack(length) == SubSeq(carthing2_get_racing_track, 1, length)

(* the car on the first waypoint, on the last, eight before the last, and off *)
(* the racing line *)
RayCars(length) ==
    {<<RayTrack(length)[i][1], RayTrack(length)[i][2]>> :
        i \in {1, length, Max(1, length - 7)}}
    \cup {<<-3900, -2700>>}

(* track_width: 0, 0.8 m, 3 m, 6 m, and the distance from waypoint 113 to *)
(* waypoint 1, which puts a scanned waypoint exactly at the target distance *)
RayTrackWidths ==
    {0, 800, 3000, 6000,
     get_distance(carthing2_get_racing_track[114], carthing2_get_racing_track[2])}

(* the values reward_function gives sight: 0.25 and 0.5, or 0.5 and 1 *)
RaySights == {250, 500, 1000}

InitRay ==
    /\ pc = "input"
    /\ \E n \in RayLengths : \E c \in RayCars(n) :
           params \in {[x |-> c[1], y |-> c[2], track_width |-> w, sight |-> s,
                        length |-> n] : w \in RayTrackWidths, s \in RaySights}
    /\ result = <<>>
    /\ before = <<>>
    /\ last_progress = 0
    /\ episode = 1
    /\ episode_progress = [e \in Episodes |-> 0]

draw_ray_call ==
    /\ pc = "input"
    /\ pc' = "draw_ray"
    /\ result' = draw_ray(params, RayTrack(params.length), params.sight)
    /\ UNCHANGED <<params, before, last_progress, episode, episode_progress>>

SpecRay == InitRay /\ [][draw_ray_call]_vars

(* ======================= properties ======================= *)
(* C1: for every telemetry record and after any sequence of earlier calls, *)
(* the reward returned lies in [reward_min, reward_max] of its variant: *)
(* [0.001, 5.0] for carthing.py and [0.001, 10.0] for carthing2.py. *)
C1_RewardWithinBounds ==
    /\ (pc = "carthing" /\ result.exception = "none") =>
           (carthing_reward_min <= result.reward /\ result.reward <= carthing_reward_max)
    /\ (pc = "carthing2" /\ result.exception = "none") =>
           (carthing2_reward_min <= result.reward /\ result.reward <= carthing2_reward_max)

(* C2: last_progress is 0 before the first call, and after every call of *)
(* reward_function of carthing.py it equals the progress of that call; the *)
(* progress score of a call is computed from the difference between its *)
(* progress and the progress of the call before it. *)
C2_LastProgressIsProgress ==
    /\ pc = "start" => last_progress = 0
    /\ pc = "carthing" => last_progress = params.progress
    /\ (pc = "carthing" /\ result.exception = "none") =>
           result.progress =
               Max((params.progress - before.last_progress)
                   * (carthing_reward_max \div Percent), carthing_reward_min)

(* C3: last_progress is reset to 0 at the start of a new episode: when a call *)
(* arrives whose progress is lower than the carried last_progress, its progress *)
(* score is computed against 0, not against the previous episode's progress. *)
C3_ResetOnRegression ==
    (pc = "carthing" /\ result.exception = "none"
     /\ params.progress < before.last_progress) =>
        result.progress =
            Max((params.progress - 0) * (carthing_reward_max \div Percent),
                carthing_reward_min)

(* C4: when the calls of several episodes interleave, the carried progress is *)
(* partitioned per episode: the progress score of a call is computed from the *)
(* progress of the latest earlier call of the same episode (0 when there is *)
(* none), never from a call of another episode. *)
C4_ProgressPartitionedPerEpisode ==
    (pc = "carthing" /\ result.exception = "none") =>
        result.progress =
            Max((params.progress - before.episode_progress)
                * (carthing_reward_max \div Percent), carthing_reward_min)

(* C5: in carthing2.py, whenever is_offtrack is true the reward returned is *)
(* exactly reward_min, whatever the other fields, and neither the locator nor *)
(* a sub-score has been computed. *)
C5_OffTrackIsRewardMin ==
    (pc = "carthing2" /\ params.is_offtrack) =>
        /\ result.exception = "none"
        /\ result.reward = carthing2_reward_min
        /\ result.min_idx = -1 /\ result.target_idx = -1

(* C5 witness: an off-track call whose other fields would earn a high reward *)
C5_OffTrackWitness ==
    /\ pc = "carthing2" /\ params.is_offtrack
    /\ params.track_width = 800 /\ params.progress = 100 * Percent
    /\ params.x = 1179
    /\ result.reward = carthing2_reward_min

(* C6: get_distance_list returns as min_idx the lowest index among the *)
(* waypoints at the minimum distance: every waypoint is at least as far as *)
(* waypoint min_idx, and every waypoint of a smaller index is farther. *)
C6_LowestIndexOfMinimum ==
    pc = "get_distance_list" =>
        /\ result.min_idx \in 0..(result.length - 1)
        /\ result.min_dist = result.dist_list[result.min_idx + 1]
        /\ \A j \in 0..(result.length - 1) :
               /\ result.dist_list[j + 1] >= result.min_dist
               /\ j < result.min_idx => result.dist_list[j + 1] > result.min_dist

(* C6 witness: two waypoints tie for the minimum (the first and the last of *)
(* the table of carthing2.py coincide) and the lower index was returned *)
C6_TieWitness ==
    /\ pc = "get_distance_list" /\ params.track = "carthing2"
    /\ result.min_idx = 0
    /\ result.dist_list[result.length] = result.min_dist

(* the two steering differences of a score_steering state *)
SteeringDiff == Abs(params.steering_angle - result.target_steering)
OtherSteeringDiff == Abs(params.other_angle - result.target_steering)

(* score is maximal at a zero difference, strictly decreases as the *)
(* difference grows, and is reward_min once the difference exceeds 30 degrees *)
SteeringAsClaimed(score, other, reward_min) ==
    /\ SteeringDiff = 0 => score >= other
    /\ (SteeringDiff < OtherSteeringDiff /\ SteeringDiff < 30 * Milli) => score > other
    /\ SteeringDiff > 30 * Milli => score = reward_min

(* C7, as claimed: in both variants score_steering is maximal when *)
(* steering_angle equals the target steering, strictly decreases as the *)
(* absolute difference grows, and equals reward_min beyond 30 degrees. *)
C7_SteeringBothVariants ==
    pc = "score_steering" =>
        /\ SteeringAsClaimed(result.carthing, result.carthing_other, carthing_reward_min)
        /\ SteeringAsClaimed(result.carthing2, result.carthing2_other,
                             carthing2_reward_min)

(* C7, amended: carthing.py is as claimed; in carthing2.py the score is *)
(* reward_max up to a difference of 3 degrees, never increases as the *)
(* difference grows, strictly decreases from 3 degrees on while it is above *)
(* reward_min, and equals reward_min from 33 degrees on. *)
C7_SteeringPerVariant ==
    pc = "score_steering" =>
        /\ SteeringAsClaimed(result.carthing, result.carthing_other, carthing_reward_min)
        /\ SteeringDiff <= 3 * Milli => result.carthing2 = carthing2_reward_max
        /\ SteeringDiff < OtherSteeringDiff => result.carthing2 >= result.carthing2_other
        /\ (SteeringDiff < OtherSteeringDiff /\ SteeringDiff >= 3 * Milli
            /\ result.carthing2_other > carthing2_reward_min) =>
               result.carthing2 > result.carthing2_other
        /\ SteeringDiff >= 33 * Milli => result.carthing2 = carthing2_reward_min

(* C7 witness: the steering equals the target steering and the other angle *)
(* is more than 33 degrees away from it *)
C7_SteeringWitness ==
    /\ pc = "score_steering"
    /\ SteeringDiff = 0 /\ OtherSteeringDiff > 33 * Milli
    /\ result.carthing = 1001 * Milli /\ result.carthing_other = carthing_reward_min
    /\ result.carthing2 = carthing2_reward_max
    /\ result.carthing2_other = carthing2_reward_min

(* C8: a record with track_width = 0 never makes reward_function crash in *)
(* either variant: the look-ahead scan stops at its first scanned waypoint, *)
(* no division by zero is raised and a reward of at least reward_min returns. *)
C8_ZeroTrackWidthReturns ==
    (pc \in {"carthing", "carthing2"} /\ params.track_width = 0) =>
        /\ result.exception = "none"
        /\ result.reward >= carthing_reward_min
        /\ result.min_idx >= 0 =>
               result.target_idx = (result.min_idx + 5) % Len(Track(pc))

(* the angle d (milliradians) is congruent to angle1 - angle2 modulo a turn *)
CongruentToDifference(d) == (params.angle1 - params.angle2 - d) % (2 * PI) = 0

(* C9, as claimed: get_difference_degrees returns the difference angle1 - *)
(* angle2 normalised into (-180, 180] degrees: half a turn yields +180. *)
C9_HalfTurnIsPlus180 ==
    pc = "get_difference_degrees" =>
        /\ -180 * Milli < result /\ result <= 180 * Milli
        /\ \E d \in (1 - PI)..PI : CongruentToDifference(d) /\ result = Degrees(d)

(* C9, amended: get_difference_degrees returns the difference angle1 - angle2 *)
(* normalised into [-180, 180) degrees: half a turn yields -180, never +180. *)
C9_HalfTurnIsMinus180 ==
    pc = "get_difference_degrees" =>
        /\ -180 * Milli <= result /\ result < 180 * Milli
        /\ \E d \in (-PI)..(PI - 1) : CongruentToDifference(d) /\ result = Degrees(d)

(* C9 witness: the two angles are exactly half a turn apart *)
C9_HalfTurnWitness ==
    /\ pc = "get_difference_degrees"
    /\ CongruentToDifference(PI)
    /\ result = -180 * Milli

(* C10: with all other inputs fixed, score_progress of carthing.py is monotone *)
(* in the delta progress - last_progress: of two calls, the one with the *)
(* larger delta has the strictly larger progress score, or both scores are at *)
(* the reward_min floor; equal deltas give equal scores. *)
C10_ProgressScoreMonotone ==
    [][(pc = "carthing" /\ pc' = "carthing"
        /\ result.exception = "none" /\ result'.exception = "none") =>
          LET delta == params.progress - before.last_progress
              delta_next == params'.progress - before'.last_progress
              floor == carthing_reward_min
          IN  /\ delta_next > delta =>
                     \/ result'.progress > result.progress
                     \/ result'.progress = floor /\ result.progress = floor
              /\ delta_next < delta =>
                     \/ result'.progress < result.progress
                     \/ result'.progress = floor /\ result.progress = floor
              /\ delta_next = delta => result'.progress = result.progress]_vars

(* C10 witness: a call with a large delta, scored above the floor, made after *)
(* a call of progress 0.0002 %, whose own score was at the floor *)
C10_AboveFloorWitness ==
    /\ pc = "carthing" /\ result.exception = "none"
    /\ before.last_progress = 2 /\ params.progress = 1 * Percent
    /\ result.progress = (1 * Percent - 2) * (carthing_reward_max \div Percent)
    /\ result.progress > carthing_reward_min

(* C11: for a table of N >= 1 waypoints, draw_ray returns (target_idx, *)
(* min_idx) where min_idx is the nearest waypoint and target_idx = *)
(* (min_idx + k) mod N, with k the smallest offset in 5 .. floor(0.1*N)-1 *)
(* whose waypoint is at distance >= track_width * sight from the car, or *)
(* k = floor(0.1*N)-1 when no offset of the window qualifies; when *)
(* floor(0.1*N) <= 5 the window is empty and target_idx = min_idx; both *)
(* indices are indices 0..N-1 of the table. *)
RayDistance(index) ==
    get_distance(<<params.x, params.y>>, RayTrack(params.length)[index + 1])

RayWindow == 5..((params.length \div 10) - 1)

RayQualifying ==
    {k \in RayWindow :
        RayDistance((result.min_idx + k) % params.length) * Milli
            >= params.track_width * params.sight}

RayOffset ==
    IF RayQualifying # {}
      THEN CHOOSE k \in RayQualifying : \A j \in RayQualifying : k <= j
      ELSE (params.length \div 10) - 1

C11_DrawRayTarget ==
    pc = "draw_ray" =>
        /\ result.min_idx \in 0..(params.length - 1)
        /\ result.target_idx \in 0..(params.length - 1)
        /\ \A i \in 0..(params.length - 1) :
               RayDistance(result.min_idx) <= RayDistance(i)
        /\ IF RayWindow = {}
             THEN result.target_idx = result.min_idx
             ELSE result.target_idx = (result.min_idx + RayOffset) % params.length

(* the scan wraps past the end of the table and stops inside the window, at *)
(* a waypoint that is exactly at the target distance *)
C11_WrapAtTargetDistance ==
    /\ pc = "draw_ray"
    /\ result.target_idx < result.min_idx
    /\ RayOffset \in RayWindow \ {5, (params.length \div 10) - 1}
    /\ RayDistance(result.target_idx) * Milli = params.track_width * params.sight
    /\ result.target_idx = (result.min_idx + RayOffset) % params.length

====
